---- MODULE Spec2Model ----
(***************************************************************************)
(* Camel Up rules engine (Philogy/camel-up-py): the board and its move     *)
(* resolver (board.py), the match ledger (game.py) and the command shell   *)
(* that validates requests before handing them to the ledger (main.py).    *)
(*                                                                         *)
(* Python values are modelled as follows.                                  *)
(*   - a board field is a record [kind, camels, jtype, owner]: kind "None" *)
(*     is Python's None, "list" a camel stack (camels is bottom-to-top),   *)
(*     "JumpField" a tile with its direction and owner;                    *)
(*   - an Optional value is a record [some, list] or the string NoOwner;   *)
(*   - an uncaught Python exception is the field err of a result, "ok"     *)
(*     when the call returned.                                             *)
(* Python sequences are 0-based, TLA+ sequences 1-based: heights and       *)
(* ranks below are the Python ones, the conversion is in Idx and Slice.    *)
(*                                                                         *)
(* The shell's history commands (undo, save, revert, reset: main.py:       *)
(* 204-223) swap the current match for an earlier or a fresh one and run   *)
(* no rule of the game; they are left out of the state machine.            *)
(***************************************************************************)
EXTENDS Integers, Sequences, FiniteSets, TLC

\* board.py:6-11, the enum values
Camel == {"Y", "W", "B", "O", "G"}

\* board.py:30
BOARD_SIZE == 16

\* board.py:14-16
Forward == 1
Backwards == -1
Jump == {Forward, Backwards}

\* game.py:8-11, in definition order: list(BetSize)
BetSizes == <<2, 3, 5>>

\* main.py:43
Dice == {1, 2, 3}

\* Python's None where an owner is expected
NoOwner == "None"

\* the players named on the command line (game.py:180 uses these two)
Players == {"bob", "joe"}

\* game.py:66
StartBalance == 3

----------------------------------------------------------------------------
(* Python helpers *)

Range(s) == {s[i] : i \in 1..Len(s)}

\* list.index(x): the 0-based position of the first x (callers check x in s)
Idx(s, x) == (CHOOSE i \in 1..Len(s) : s[i] = x /\ \A j \in 1..(i - 1) : s[j] # x) - 1

\* s[a:b] for 0 <= a <= b <= len(s)
Slice(s, a, b) == SubSeq(s, a + 1, b)

Max(a, b) == IF a >= b THEN a ELSE b

\* Optional[list]
Nothing == [some |-> FALSE, list |-> <<>>]
Some(l) == [some |-> TRUE, list |-> l]

----------------------------------------------------------------------------
(* board.py *)

EmptyField == [kind |-> "None", camels |-> <<>>, jtype |-> 0, owner |-> NoOwner]
CamelStack(s) == [kind |-> "list", camels |-> s, jtype |-> 0, owner |-> NoOwner]
JumpField(jtype, owner) == [kind |-> "JumpField", camels |-> <<>>, jtype |-> jtype, owner |-> owner]

Positions == 0..(BOARD_SIZE - 1)

Board(fields, index) == [fields |-> fields, index |-> index]

create_empty_board == Board([i \in Positions |-> EmptyField], [c \in {} |-> 0])

\* the asserts of validate_board: TRUE when none fires
validate_board(board) ==
    \A camel \in DOMAIN board.index :
        LET pos == board.index[camel] IN
        pos >= BOARD_SIZE
        \/ (board.fields[pos].kind = "list" /\ camel \in Range(board.fields[pos].camels))

\* `sliced_stack or None`: an empty list is stored as None
StackOrNone(s) == IF s = <<>> THEN EmptyField ELSE CamelStack(s)

\* board.py:122
MoveStackReversed(stack, height) ==
    [i \in 1..(Len(stack) - height) |-> stack[Len(stack) + 1 - i]]
MoveStack(stack, height) == Slice(stack, height, Len(stack))

\* board.py:123
SlicedStackOffByOne(stack, height) == Slice(stack, 0, height + 1)
SlicedStack(stack, height) == Slice(stack, 0, height)

\* board.py:128 and 138
Finished(end_pos) == end_pos >= BOARD_SIZE

\* board.py:129 and 139, the finish group handed back
FinishGroupMoverOnly(move_stack) == <<Head(move_stack)>>
FinishGroup(move_stack) == move_stack

\* board.py:144, the merge after a Backwards jump
MergeBackwardOnTop(move_stack, dest) == dest \o move_stack
MergeBackward(move_stack, dest) == move_stack \o dest

\* board.py:150, the merge of every other landing
MergeNormalTwice(dest, move_stack) == dest \o move_stack \o move_stack
MergeNormalReversed(dest, move_stack) ==
    [i \in 1..Len(dest) |-> dest[Len(dest) + 1 - i]] \o move_stack
MergeNormal(dest, move_stack) == dest \o move_stack

\* board.py:125-126 and 136-137
Advance(index, move_stack, by) ==
    [c \in DOMAIN index |-> IF c \in Range(move_stack) THEN index[c] + by ELSE index[c]]

MoveResult(err, board, owner, winner) ==
    [owner |-> owner, board |-> board, err |-> err, winner |-> winner]

\* board.py:109-118
FirstMove(board, camel, steps) ==
    LET pos == steps - 1
        index == [c \in DOMAIN board.index \cup {camel} |->
                     IF c = camel THEN pos ELSE board.index[c]]
        field == board.fields[pos]
    IN  IF field.kind = "JumpField"
        THEN MoveResult("AssertionError", board, NoOwner, Nothing)
        ELSE MoveResult("ok",
                 Board([board.fields EXCEPT ![pos] = CamelStack(Append(field.camels, camel))],
                       index),
                 NoOwner, Nothing)

\* board.py:147-151
NormalMerge(fields, index, end_pos, move_stack, owner) ==
    LET dest == fields[end_pos] IN
    IF dest.kind = "None"
    THEN MoveResult("ok", Board([fields EXCEPT ![end_pos] = CamelStack(move_stack)], index),
                    owner, Nothing)
    ELSE IF dest.kind = "list"
    THEN MoveResult("ok",
             Board([fields EXCEPT ![end_pos] = CamelStack(MergeNormal(dest.camels, move_stack))],
                   index),
             owner, Nothing)
    ELSE MoveResult("TypeError", Board(fields, index), owner, Nothing)

\* board.py:140-145
BackwardMerge(fields, index, end_pos, move_stack, owner) ==
    LET dest == fields[end_pos] IN
    IF dest.kind = "None"
    THEN MoveResult("ok", Board([fields EXCEPT ![end_pos] = CamelStack(move_stack)], index),
                    owner, Nothing)
    ELSE IF dest.kind = "list"
    THEN MoveResult("ok",
             Board([fields EXCEPT ![end_pos] = CamelStack(MergeBackward(move_stack, dest.camels))],
                   index),
             owner, Nothing)
    ELSE MoveResult("TypeError", Board(fields, index), owner, Nothing)

\* board.py:133, the owner reported for the tile landed on
JumpOwnerNone(dest_field) == NoOwner
JumpOwner(dest_field) == dest_field.owner

\* board.py:130-151, the landing on field end_pos < BOARD_SIZE
Landing(fields, index, end_pos, move_stack) ==
    LET dest == fields[end_pos] IN
    IF dest.kind = "JumpField"
    THEN LET shift == dest.jtype
             end2 == end_pos + shift
             index2 == Advance(index, move_stack, shift)
         IN  IF Finished(end2)
             THEN MoveResult("ok", Board(fields, index2), JumpOwner(dest), Some(FinishGroup(move_stack)))
             ELSE IF shift = -1
             THEN BackwardMerge(fields, index2, end2, move_stack, JumpOwner(dest))
             ELSE NormalMerge(fields, index2, end2, move_stack, JumpOwner(dest))
    ELSE NormalMerge(fields, index, end_pos, move_stack, NoOwner)

\* board.py:120-151. A landing field is start_pos + steps >= 1, so the Backwards
\* shift never leaves the track at its low end.
SubsequentMove(board, camel, steps) ==
    LET start_pos == board.index[camel] IN
    IF start_pos >= BOARD_SIZE
    THEN MoveResult("IndexError", board, NoOwner, Nothing)
    ELSE
    LET origin == board.fields[start_pos] IN
    IF origin.kind = "None"
    THEN MoveResult("AttributeError", board, NoOwner, Nothing)
    ELSE IF camel \notin Range(origin.camels)
    THEN MoveResult("ValueError", board, NoOwner, Nothing)
    ELSE
    LET height == Idx(origin.camels, camel)
        move_stack == MoveStack(origin.camels, height)
        sliced_stack == SlicedStack(origin.camels, height)
        fields == [board.fields EXCEPT ![start_pos] = StackOrNone(sliced_stack)]
        index == Advance(board.index, move_stack, steps)
        end_pos == start_pos + steps
    IN  IF Finished(end_pos)
        THEN MoveResult("ok", Board(fields, index), NoOwner, Some(FinishGroup(move_stack)))
        ELSE Landing(fields, index, end_pos, move_stack)

\* board.py:105-151 with the decorator of 61-72: the result is validated
apply_move(board, camel, steps) ==
    LET res == IF camel \notin DOMAIN board.index
               THEN FirstMove(board, camel, steps)
               ELSE SubsequentMove(board, camel, steps)
    IN  IF res.err = "ok" /\ ~validate_board(res.board)
        THEN MoveResult("AssertionError", board, NoOwner, Nothing)
        ELSE res

\* board.py:96-100, the sort key of one camel: (index, height or finish rank)
RankKey(board, winners, camel) ==
    LET index == board.index[camel] IN
    <<index, IF index < BOARD_SIZE
             THEN Idx(board.fields[index].camels, camel)
             ELSE Idx(winners.list, camel)>>

\* board.py:97-98, the lookups that raise
RankError(board, winners) ==
    IF \E c \in DOMAIN board.index : board.index[c] >= BOARD_SIZE /\ ~winners.some
    THEN "AttributeError"
    ELSE IF \E c \in DOMAIN board.index :
               \/ board.index[c] >= BOARD_SIZE /\ c \notin Range(winners.list)
               \/ board.index[c] < BOARD_SIZE /\ c \notin Range(board.fields[board.index[c]].camels)
    THEN "ValueError"
    ELSE "ok"

\* tuple comparison a > b
KeyAboveAscending(a, b) == a[1] < b[1] \/ (a[1] = b[1] /\ a[2] < b[2])
KeyAbove(a, b) == a[1] > b[1] \/ (a[1] = b[1] /\ a[2] > b[2])

\* board.py:101-102: sorted(..., reverse=True). Keys of distinct camels differ
\* (distinct heights in one stack, distinct ranks in winners), so the stable
\* order of equal keys plays no part.
RECURSIVE SortedCamels(_, _, _)
SortedCamels(board, winners, S) ==
    IF S = {} THEN <<>>
    ELSE LET best == CHOOSE c \in S : \A d \in S \ {c} :
                        KeyAbove(RankKey(board, winners, c), RankKey(board, winners, d))
         IN  <<best>> \o SortedCamels(board, winners, S \ {best})

\* board.py:95-102
get_rankings(board, winners) ==
    LET err == RankError(board, winners) IN
    [err |-> err,
     ranking |-> IF err = "ok" THEN SortedCamels(board, winners, DOMAIN board.index) ELSE <<>>]

----------------------------------------------------------------------------
(* game.py *)

Player(balance, owned_bets) == [balance |-> balance, owned_bets |-> owned_bets]
Bet(size, camel) == [camel |-> camel, size |-> size]
Game(board, players, bets, camels_left) ==
    [board |-> board, players |-> players, bets |-> bets, camels_left |-> camels_left]

\* game.py:25-29
reset_bets == [camel \in Camel |-> BetSizes]

\* game.py:62-71
init_game == Game(create_empty_board,
                  [name \in Players |-> Player(StartBalance, {})],
                  reset_bets,
                  Camel)

\* game.py:112-116
ChangeBalanceNoFloor(players, name, delta) ==
    [players EXCEPT ![name] = Player(players[name].balance + delta, players[name].owned_bets)]
change_balance(players, name, delta) ==
    [players EXCEPT ![name] = Player(Max(players[name].balance + delta, 0),
                                     players[name].owned_bets)]

\* game.py:125-130, what one owned bet adds to net_win
BetWin(bet, fst, snd) ==
    IF fst = bet.camel THEN bet.size
    ELSE IF snd = bet.camel THEN 1
    ELSE -1

\* game.py:123-130
RECURSIVE NetWin(_, _, _)
NetWin(owned_bets, fst, snd) ==
    IF owned_bets = {} THEN 0
    ELSE LET bet == CHOOSE b \in owned_bets : TRUE
         IN  BetWin(bet, fst, snd) + NetWin(owned_bets \ {bet}, fst, snd)

\* game.py:132-134
ClearJumps(fields) ==
    [i \in Positions |-> IF fields[i].kind = "JumpField" THEN EmptyField ELSE fields[i]]

\* game.py:135-143, the pools and the camel set of the next leg
NextLegBetsKept(bets) == bets
NextLegBets(bets) == reset_bets

GameResult(err, game, winner) == [err |-> err, winner |-> winner, game |-> game]

\* game.py:119-143
evaluate_bets(game, board) ==
    LET ranked == get_rankings(board, Nothing) IN
    IF ranked.err # "ok" THEN [err |-> ranked.err, game |-> game]
    ELSE IF Len(ranked.ranking) < 2 THEN [err |-> "ValueError", game |-> game]
    ELSE
    LET fst == ranked.ranking[1]
        snd == ranked.ranking[2]
        settled == [name \in Players |->
                       change_balance(game.players, name,
                                      NetWin(game.players[name].owned_bets, fst, snd))[name]]
    IN  [err |-> "ok",
         game |-> Game(Board(ClearJumps(board.fields), board.index),
                       [name \in Players |-> Player(settled[name].balance, {})],
                       NextLegBets(game.bets),
                       Camel)]

\* game.py:151-153: the stipend of an owned move. change_balance(players, None, 1)
\* raises KeyError.
StipendNever(owner, camel, camels_left) == FALSE
StipendDue(owner, camel, camels_left) == ~(owner = NoOwner /\ camel \in camels_left)

\* game.py:156-157
ShifterReward == 1

\* game.py:159, the leg goes on while camels are left
LegGoesOn(camels_left) == camels_left # {}

\* game.py:150-167
ApplyMoveAction(game, owner, camel, steps) ==
    IF StipendDue(owner, camel, game.camels_left) /\ owner \notin Players
    THEN GameResult("KeyError", game, Nothing)
    ELSE
    LET paid == IF StipendDue(owner, camel, game.camels_left)
                THEN change_balance(game.players, owner, 1)
                ELSE game.players
        moved == apply_move(game.board, camel, steps)
    IN  IF moved.err # "ok" THEN GameResult(moved.err, game, Nothing)
        ELSE IF moved.owner # NoOwner /\ moved.owner \notin Players
        THEN GameResult("KeyError", game, Nothing)
        ELSE
        LET rewarded == IF moved.owner # NoOwner
                        THEN change_balance(paid, moved.owner, ShifterReward)
                        ELSE paid
            camels_left == game.camels_left \ {camel}
            going == Game(moved.board, rewarded, game.bets, camels_left)
        IN  IF LegGoesOn(camels_left)
            THEN GameResult("ok", going, moved.winner)
            ELSE LET settled == evaluate_bets(going, moved.board)
                 IN  IF settled.err = "ok"
                     THEN GameResult("ok", settled.game, moved.winner)
                     ELSE GameResult(settled.err, game, Nothing)

\* game.py:168-169. fields[position] is a Python list: an index outside
\* -16..15 raises IndexError and a negative one counts from the end.
ApplyPlaceAction(game, owner, position, jump) ==
    IF position < -BOARD_SIZE \/ position >= BOARD_SIZE
    THEN GameResult("IndexError", game, Nothing)
    ELSE LET pos == IF position < 0 THEN position + BOARD_SIZE ELSE position
         IN  GameResult("ok",
                 Game(Board([game.board.fields EXCEPT ![pos] = JumpField(jump, owner)],
                            game.board.index),
                      game.players, game.bets, game.camels_left),
                 Nothing)

\* game.py:174, list.pop(): the last element
PopFirst(pool) == [taken |-> pool[1], rest |-> Slice(pool, 1, Len(pool))]
Pop(pool) == [taken |-> pool[Len(pool)], rest |-> Slice(pool, 0, Len(pool) - 1)]

\* game.py:170-176. game.players[owner] is looked up before the pool is popped.
ApplyBetAction(game, owner, camel) ==
    IF owner \notin Players THEN GameResult("KeyError", game, Nothing)
    ELSE IF game.bets[camel] = <<>> THEN GameResult("IndexError", game, Nothing)
    ELSE LET popped == Pop(game.bets[camel])
             player == game.players[owner]
         IN  GameResult("ok",
                 Game(game.board,
                      [game.players EXCEPT ![owner] =
                          Player(player.balance, player.owned_bets \cup {Bet(popped.taken, camel)})],
                      [game.bets EXCEPT ![camel] = popped.rest],
                      game.camels_left),
                 Nothing)

----------------------------------------------------------------------------
(* Commands: a request as the shell or another caller hands it over *)

Cmd(cmd, owner, camel, steps, position, jump) ==
    [owner |-> owner, camel |-> camel, steps |-> steps,
     position |-> position, jump |-> jump, cmd |-> cmd]
MoveCmd(owner, camel, steps) == Cmd("move", owner, camel, steps, 0, 0)
PlaceCmd(owner, position, jump) == Cmd("place", owner, "-", 0, position, jump)
BetCmd(owner, camel) == Cmd("bet", owner, camel, 0, 0, 0)
RankCmd == Cmd("rank", NoOwner, "-", 0, 0, 0)

\* game.py:146-176
apply_action(game, c) ==
    IF c.cmd = "move" THEN ApplyMoveAction(game, c.owner, c.camel, c.steps)
    ELSE IF c.cmd = "place" THEN ApplyPlaceAction(game, c.owner, c.position, c.jump)
    ELSE ApplyBetAction(game, c.owner, c.camel)

----------------------------------------------------------------------------
(* Objects and copies. A Python list, dict or set is an object: a write in   *)
(* place (append, +=, pop, add, item assignment) shows to every holder of    *)
(* it. A copy is described by the kinds of object it shares with its source; *)
(* after a call the source reads as it was, except for the shared objects,   *)
(* which read as the callee left them.                                       *)

\* the kinds of mutable object in a board: the list of fields, the camel
\* stacks in it, the position index
BoardObjects == {"fields", "stacks", "index"}

\* board.py:75-80: fields is a new list, every stack is field.copy(), the index
\* is index.copy(): the copy shares no object with its source
CopyBoardShallow(board) == [board |-> board, shared |-> {"stacks"}]
copy_board(board) == [board |-> board, shared |-> {}]

\* game.py:32-43: a new dict of new Player tuples, each with owned_bets.copy()
copy_players(players) == [players |-> players, shared |-> {}]

\* game.py:46-50: a new dict of copied pool lists
copy_bets(bets) == [bets |-> bets, shared |-> {}]

\* game.py:53-59
copy_game(game) ==
    [game |-> game,
     shared |-> copy_board(game.board).shared
                \cup copy_players(game.players).shared
                \cup copy_bets(game.bets).shared]

\* board.py:107-151: the working copy as apply_move leaves it, also when it
\* raises: line 111 writes the index before the assertion of line 113, and a
\* TypeError of line 144 or 150 comes after the writes of lines 124-137
MoveWorking(board, camel, steps) ==
    IF camel \notin DOMAIN board.index
    THEN LET res == FirstMove(board, camel, steps)
         IN  IF res.err = "ok" THEN res.board
             ELSE Board(board.fields,
                        [c \in DOMAIN board.index \cup {camel} |->
                            IF c = camel THEN steps - 1 ELSE board.index[c]])
    ELSE SubsequentMove(board, camel, steps).board

\* board.py:115 (append) and 150 (+=): the field whose stack object is extended
\* in place, -1 when no stack is; line 144 builds a new list
ExtendedField(board, camel, steps) ==
    IF camel \notin DOMAIN board.index
    THEN IF board.fields[steps - 1].kind = "list" THEN steps - 1 ELSE -1
    ELSE LET res == SubsequentMove(board, camel, steps) IN
         IF res.err # "ok" \/ res.winner.some THEN -1
         ELSE LET dest == board.fields[board.index[camel] + steps]
                  end_pos == board.index[camel] + steps
                            + (IF dest.kind = "JumpField" THEN dest.jtype ELSE 0)
              IN  IF dest.kind = "JumpField" /\ dest.jtype = -1 THEN -1
                  ELSE IF board.fields[end_pos].kind = "list" THEN end_pos ELSE -1

\* what a board reads after a callee worked on a copy of it that shares the
\* kinds `shared`: `working` is that copy when the callee is done, `extended`
\* the field whose stack it extended in place
BoardSeen(board, shared, working, extended) ==
    Board(IF "fields" \in shared THEN working.fields
          ELSE [i \in Positions |->
                   IF "stacks" \in shared /\ i = extended
                   THEN working.fields[i] ELSE board.fields[i]],
          IF "index" \in shared THEN working.index ELSE board.index)

\* board.py:107: the board handed to apply_move, read after the call
MoveSeen(board, camel, steps) ==
    BoardSeen(board, copy_board(board).shared,
              MoveWorking(board, camel, steps), ExtendedField(board, camel, steps))

\* game.py:132-134 write to the board apply_move returned: the working board
\* of a move action when apply_action is done
BoardWorking(game, c) ==
    LET working == MoveWorking(game.board, c.camel, c.steps)
        r == ApplyMoveAction(game, c.owner, c.camel, c.steps)
    IN  IF r.err = "ok" /\ ~LegGoesOn(game.camels_left \ {c.camel})
        THEN Board(ClearJumps(working.fields), working.index)
        ELSE working

\* game.py:151-157 and 131: the dict of players of the working copy when
\* apply_action is done, also when it raises. change_balance assigns
\* players[name] and keeps the set of owned bets; line 173 adds to that set.
PlayersWorking(game, c) ==
    IF c.cmd = "move"
    THEN IF StipendDue(c.owner, c.camel, game.camels_left) /\ c.owner \notin Players
         THEN game.players
         ELSE
         LET paid == IF StipendDue(c.owner, c.camel, game.camels_left)
                     THEN change_balance(game.players, c.owner, 1)
                     ELSE game.players
             moved == apply_move(game.board, c.camel, c.steps)
         IN  IF moved.err # "ok" \/ (moved.owner # NoOwner /\ moved.owner \notin Players)
             THEN paid
             ELSE
             LET rewarded == IF moved.owner # NoOwner
                             THEN change_balance(paid, moved.owner, ShifterReward)
                             ELSE paid
                 r == ApplyMoveAction(game, c.owner, c.camel, c.steps)
             IN  IF r.err # "ok" \/ LegGoesOn(game.camels_left \ {c.camel})
                 THEN rewarded
                 ELSE [name \in Players |->
                          Player(r.game.players[name].balance, rewarded[name].owned_bets)]
    ELSE IF c.cmd = "bet"
    THEN LET r == ApplyBetAction(game, c.owner, c.camel)
         IN  IF r.err = "ok" THEN r.game.players ELSE game.players
    ELSE game.players

\* game.py:174: the pools of the working copy when apply_action is done
BetsWorking(game, c) ==
    IF c.cmd = "bet"
    THEN LET r == ApplyBetAction(game, c.owner, c.camel)
         IN  IF r.err = "ok" THEN r.game.bets ELSE game.bets
    ELSE game.bets

\* game.py:147: the match handed to apply_action, read after the call. A move
\* works on a copy (board.py:107) of the copied board, a placement writes to
\* the copied board itself (game.py:169).
GameSeen(game, c) ==
    LET shared == copy_game(game).shared
        inner == shared \cap copy_board(game.board).shared
        working == PlayersWorking(game, c)
    IN  Game(IF c.cmd = "move"
             THEN BoardSeen(game.board, inner, BoardWorking(game, c),
                            ExtendedField(game.board, c.camel, c.steps))
             ELSE IF c.cmd = "place"
             THEN BoardSeen(game.board, shared,
                            ApplyPlaceAction(game, c.owner, c.position, c.jump).game.board, -1)
             ELSE game.board,
             IF "players" \in shared THEN working
             ELSE [name \in Players |->
                      Player(game.players[name].balance,
                             IF "owned_bets" \in shared THEN working[name].owned_bets
                             ELSE game.players[name].owned_bets)],
             IF "pools" \in shared THEN BetsWorking(game, c) ELSE game.bets,
             game.camels_left)

----------------------------------------------------------------------------
(* main.py: what parse_action lets through *)

AllPlaced(game) == DOMAIN game.board.index = Camel

\* main.py:38-48
parse_move(game, camel, steps) == steps \in Dice /\ camel \in Camel /\ camel \in game.camels_left

\* main.py:59-60
PlaceOffStart(pos) == pos # 0

\* main.py:64-65
DestinationEmpty(field) == field.kind = "None"

\* main.py:66-68
NoAdjacentJump(fields, pos) ==
    /\ fields[pos - 1].kind # "JumpField"
    /\ (pos # 15 => fields[pos + 1].kind # "JumpField")

\* main.py:51-70, pos is the 0-based position (the typed number minus one)
parse_place(game, pos, jump) ==
    /\ PlaceOffStart(pos)
    /\ pos \in 0..15
    /\ DestinationEmpty(game.board.fields[pos])
    /\ NoAdjacentJump(game.board.fields, pos)
    /\ jump \in Jump

\* main.py:153-158 with the test any(...) left out
OwnsJumpNever(game, owner) == FALSE

\* main.py:153-158
OwnsJump(game, owner) ==
    \E i \in Positions : game.board.fields[i].kind = "JumpField"
                         /\ game.board.fields[i].owner = owner

\* main.py:73-77
parse_bet(game, camel) == camel \in Camel /\ game.bets[camel] # <<>>

\* main.py:131-188: TRUE when the command is turned into an action (or run, for
\* rank) rather than refused with ParseError
parse_action(game, c) ==
    IF c.cmd = "rank" THEN TRUE
    ELSE IF AllPlaced(game)
    THEN /\ c.owner \in Players
         /\ CASE c.cmd = "move" -> parse_move(game, c.camel, c.steps)
              [] c.cmd = "place" -> parse_place(game, c.position, c.jump) /\ ~OwnsJump(game, c.owner)
              [] c.cmd = "bet" -> parse_bet(game, c.camel)
              [] OTHER -> FALSE
    ELSE c.cmd = "move" /\ c.owner = NoOwner /\ parse_move(game, c.camel, c.steps)

----------------------------------------------------------------------------
(* main.py:80-107, simulate_probs. Every combination weighs 1/total_paths;  *)
(* the model counts combinations, so that a value of the code is the count  *)
(* here divided by total_paths. The combinations that begin with the same   *)
(* moves are replayed together up to where they part: a replay that stops   *)
(* at a finish stands for all the combinations that begin with its moves.   *)

\* the one element of a singleton
Only(S) == CHOOSE x \in S : TRUE

\* main.py:86-88
RECURSIVE TotalPaths(_)
TotalPaths(n) == IF n = 0 THEN 1 ELSE 3 * n * TotalPaths(n - 1)

\* main.py:81-85 and 107, the five accumulators (a defaultdict reads 0 for a
\* key never added to), and the exception that ended the call
Tally(err, fst_p, snd_p, winners, losers, shifts) ==
    [err |-> err, winners |-> winners, fst_p |-> fst_p, snd_p |-> snd_p,
     losers |-> losers, shifts |-> shifts]

NoCamel == [c \in Camel |-> 0]
NoPlayer == [name \in Players |-> 0]
NoTally == Tally("ok", NoCamel, NoCamel, NoCamel, NoCamel, NoPlayer)
Raised(err) == Tally(err, NoCamel, NoCamel, NoCamel, NoCamel, NoPlayer)

\* `+=` on the accumulators
AddTally(a, b) ==
    IF a.err # "ok" THEN Raised(a.err)
    ELSE IF b.err # "ok" THEN Raised(b.err)
    ELSE Tally("ok",
               [c \in Camel |-> a.fst_p[c] + b.fst_p[c]],
               [c \in Camel |-> a.snd_p[c] + b.snd_p[c]],
               [c \in Camel |-> a.winners[c] + b.winners[c]],
               [c \in Camel |-> a.losers[c] + b.losers[c]],
               [name \in Players |-> a.shifts[name] + b.shifts[name]])

Once(camel, weight) == [c \in Camel |-> IF c = camel THEN weight ELSE 0]

\* main.py:98-106: the ranking of a replayed board and what it adds, for the
\* `weight` combinations replayed. The unpacking of line 98 takes exactly five.
Ranked(sub_board, winner_stack, weight) ==
    Only({IF r.err # "ok" THEN Raised(r.err)
          ELSE IF Len(r.ranking) # 5 THEN Raised("ValueError")
          ELSE Tally("ok",
                     Once(r.ranking[1], weight),
                     Once(r.ranking[2], weight),
                     IF winner_stack.some THEN Once(r.ranking[1], weight) ELSE NoCamel,
                     IF winner_stack.some THEN Once(r.ranking[5], weight) ELSE NoCamel,
                     NoPlayer)
          : r \in {get_rankings(sub_board, winner_stack)}})

\* main.py:94-95
Shifted(shifter, weight) ==
    Tally("ok", NoCamel, NoCamel, NoCamel, NoCamel,
          [name \in Players |-> IF name = shifter THEN weight ELSE 0])

\* main.py:96-97
NeverBreaks(winner_stack) == FALSE
Breaks(winner_stack) == winner_stack.some

\* the accumulators after every `+=` of the replays in parts, a set of
\* pairs <<next move, what the replays that begin with it added>>
RECURSIVE SumTally(_)
SumTally(parts) ==
    IF parts = {} THEN NoTally
    ELSE Only({Only({AddTally(p[2], SumTally(others)) : others \in {parts \ {p}}})
               : p \in {Only(parts)}})

RECURSIVE Replays(_, _, _)

\* main.py:92-97: one more move of the combinations that have led to
\* sub_board, with the camels of `rest` still to move
Applied(sub_board, rest, camel, steps) ==
    Only({IF m.err # "ok" THEN Raised(m.err)
          ELSE Only({AddTally(Shifted(m.owner, w),
                              IF Breaks(m.winner)
                              THEN Ranked(m.board, m.winner, w)
                              ELSE Only({Replays(b, left, m.winner) :
                                           b \in {m.board}, left \in {rest \ {camel}}}))
                     : w \in {TotalPaths(Cardinality(rest) - 1)}})
          : m \in {apply_move(sub_board, camel, steps)}})

\* main.py:89-106: the camel and the steps of the next move range over the
\* camels still to move and the dice; winner_stack is what the last move
\* applied returned
Replays(sub_board, rest, winner_stack) ==
    IF rest = {} THEN Ranked(sub_board, winner_stack, 1)
    ELSE Only({SumTally(parts) :
                 parts \in {{<<next, Applied(sub_board, rest, next[1], next[2])>> :
                               next \in rest \X Dice}}})

\* main.py:89-92: the combination the enumeration starts with, the camels in
\* the order `camel_order` that iterating the set camels_left gives, each one
\* step: the exception it raises, "ok" when it raises none
RECURSIVE FirstCombination(_, _, _)
FirstCombination(sub_board, camel_order, winner_stack) ==
    IF camel_order = <<>>
    THEN Ranked(sub_board, winner_stack, 1).err
    ELSE Only({IF m.err # "ok" THEN m.err
               ELSE IF Breaks(m.winner) THEN Ranked(m.board, m.winner, 1).err
               ELSE Only({FirstCombination(b, o, m.winner) :
                            b \in {m.board}, o \in {Tail(camel_order)}})
               : m \in {apply_move(sub_board, Head(camel_order), 1)}})

\* the orders in which a set can be iterated
Orders(S) == {o \in [1..Cardinality(S) -> S] : Range(o) = S}

\* main.py:89: permutations(game.camels_left) starts with the camels in the
\* order in which the set is iterated, which the language leaves open: the
\* exceptions the first combination can raise, "ok" for none
FirstRaises(game) ==
    {FirstCombination(game.board, camel_order, Nothing) : camel_order \in Orders(game.camels_left)}

\* main.py:80-107, `first` being what the first combination raises. With no
\* camel left the loop of line 92 binds no winner_stack for line 98.
simulate_probs(game, first) ==
    IF game.camels_left = {} THEN Raised("UnboundLocalError")
    ELSE IF first # "ok" THEN Raised(first)
    ELSE Replays(game.board, game.camels_left, Nothing)

\* what running one command reports: the exception that ended the process (or
\* "ok"), and the values the call returned
Outcome(c, err, shifter, winner, ranking) ==
    [err |-> err, winner |-> winner, ranking |-> ranking, cmd |-> c, shifter |-> shifter]

\* main.py:170-173 and 225-226: the command runs; the match changes only if
\* nothing was raised
RunCommand(game, c) ==
    IF c.cmd = "rank"
    THEN LET r == get_rankings(game.board, Nothing)
         IN  [game |-> game,
              out |-> Outcome(c, r.err, NoOwner, Nothing, r.ranking)]
    ELSE LET r == apply_action(game, c)
             shifter == IF r.err = "ok" /\ c.cmd = "move"
                        THEN apply_move(game.board, c.camel, c.steps).owner
                        ELSE NoOwner
         IN  [game |-> IF r.err = "ok" THEN r.game ELSE game,
              out |-> Outcome(c, r.err, shifter, r.winner, <<>>)]

----------------------------------------------------------------------------
(* The match as the shell holds it (main.py:193-226) *)

VARIABLES
    fields,       \* game.board.fields
    index,        \* game.board.index
    players,      \* game.players
    bets,         \* game.bets
    camels_left,  \* game.camels_left
    prev,         \* the match the last command was run on, as it was then
    last,         \* the last command run and what it reported
    probs,        \* what the last simulate_probs returned (main.py:111)
    ncmd          \* commands run since the opening

vars == <<fields, index, players, bets, camels_left, prev, last, probs, ncmd>>

game == Game(Board(fields, index), players, bets, camels_left)

\* commands explored after an opening
MaxCommands == 2

NoCmd == Cmd("none", NoOwner, "-", 0, 0, 0)

(* Reference matches: command sequences typed into a fresh shell. *)

\* game.py:179-212, the walkthrough of the ledger
WalkthroughMatch == <<
    MoveCmd(NoOwner, "Y", 1),
    MoveCmd(NoOwner, "W", 1),
    MoveCmd(NoOwner, "B", 1),
    MoveCmd(NoOwner, "O", 1),
    MoveCmd(NoOwner, "G", 1),
    BetCmd("joe", "W"),
    BetCmd("joe", "W"),
    BetCmd("joe", "G"),
    BetCmd("joe", "Y"),
    MoveCmd("joe", "B", 1),
    MoveCmd("joe", "W", 3),
    MoveCmd("joe", "Y", 2),
    MoveCmd("joe", "G", 2),
    MoveCmd("joe", "O", 1)
>>

\* a match with both kinds of tile, a balance floored at 0 and a finish through a tile
TileMatch == <<
    MoveCmd(NoOwner, "Y", 3),
    MoveCmd(NoOwner, "W", 3),
    MoveCmd(NoOwner, "B", 3),
    MoveCmd(NoOwner, "O", 2),
    MoveCmd(NoOwner, "G", 3),
    BetCmd("joe", "O"),
    BetCmd("joe", "O"),
    BetCmd("joe", "O"),
    BetCmd("joe", "W"),
    BetCmd("joe", "W"),
    BetCmd("bob", "G"),
    PlaceCmd("bob", 4, Backwards),
    PlaceCmd("joe", 6, Forward),
    MoveCmd("bob", "W", 2),
    MoveCmd("bob", "O", 3),
    MoveCmd("bob", "B", 3),
    MoveCmd("bob", "G", 3),
    MoveCmd("bob", "Y", 3),
    BetCmd("bob", "G"),
    PlaceCmd("bob", 12, Forward),
    MoveCmd("joe", "G", 2),
    MoveCmd("joe", "B", 3),
    MoveCmd("joe", "O", 3),
    MoveCmd("joe", "Y", 1),
    MoveCmd("joe", "W", 3),
    PlaceCmd("joe", 15, Forward),
    BetCmd("joe", "G"),
    MoveCmd("bob", "G", 2)
>>

\* board.py:154-171 (the Backwards tile under a carried group), played on until two camels finish together
StackMatch == <<
    MoveCmd(NoOwner, "Y", 1),
    MoveCmd(NoOwner, "W", 1),
    MoveCmd(NoOwner, "B", 2),
    MoveCmd(NoOwner, "O", 1),
    MoveCmd(NoOwner, "G", 1),
    PlaceCmd("bob", 2, Backwards),
    MoveCmd("joe", "W", 2),
    MoveCmd("joe", "O", 3),
    MoveCmd("bob", "G", 3),
    MoveCmd("bob", "B", 3),
    MoveCmd("joe", "Y", 1),
    PlaceCmd("joe", 3, Forward),
    MoveCmd("bob", "W", 2),
    MoveCmd("bob", "O", 3),
    MoveCmd("joe", "G", 3),
    MoveCmd("joe", "B", 3),
    MoveCmd("joe", "Y", 2),
    BetCmd("bob", "W"),
    BetCmd("joe", "Y"),
    MoveCmd("bob", "B", 1),
    MoveCmd("joe", "O", 2)
>>


\* StackMatch up to its third leg, which here sees two camels finish one after
\* the other and leaves one camel to move
FinishMatch == SubSeq(StackMatch, 1, 17) \o <<
    MoveCmd("bob", "W", 3),
    MoveCmd("bob", "B", 1),
    MoveCmd("joe", "G", 1),
    MoveCmd("joe", "O", 1)
>>

Matches == {WalkthroughMatch, TileMatch, StackMatch, FinishMatch}

\* The exploration starts from every match state met along a reference match,
\* the fresh match included: each is the state of the shell after the commands
\* of a prefix.
Openings == UNION {{SubSeq(m, 1, n) : n \in 0..Len(m)} : m \in Matches}

\* the match after the commands cmds, typed one after the other (main.py:196-226):
\* a set holding that match, empty when a command is refused or raises
RECURSIVE Replay(_, _)
Replay(g, cmds) ==
    IF cmds = <<>> THEN {g}
    ELSE UNION {Replay(r.game, Tail(cmds)) :
                  r \in {x \in {RunCommand(g, Head(cmds))} :
                            parse_action(g, Head(cmds)) /\ x.out.err = "ok"}}

Init ==
    \E opening \in Openings :
      \E start \in Replay(init_game, opening) :
        /\ fields = start.board.fields
        /\ index = start.board.index
        /\ players = start.players
        /\ bets = start.bets
        /\ camels_left = start.camels_left
        /\ prev = start
        /\ last = Outcome(NoCmd, "ok", NoOwner, Nothing, <<>>)
        /\ probs = NoTally
        /\ ncmd = 0

\* the match becomes r.game and r.out is reported
Becomes(r) ==
    /\ fields' = r.game.board.fields
    /\ index' = r.game.board.index
    /\ players' = r.game.players
    /\ bets' = r.game.bets
    /\ camels_left' = r.game.camels_left
    /\ prev' = game
    /\ last' = r.out
    /\ probs' = probs
    /\ ncmd' = ncmd + 1

\* main.py:196-226, one turn of the loop: a command parse_action accepts is run;
\* an exception other than ParseError ends the process
Do(c) ==
    /\ last.err = "ok"
    /\ ncmd < MaxCommands
    /\ parse_action(game, c)
    /\ \E r \in {RunCommand(game, c)} : Becomes(r)

\* main.py:184-186, a raw move while camels are still to be placed
RawMove == \E camel \in Camel, steps \in Dice : Do(MoveCmd(NoOwner, camel, steps))

\* main.py:147-149
Move == \E owner \in Players, camel \in Camel, steps \in Dice : Do(MoveCmd(owner, camel, steps))

\* main.py:150-158
Place == \E owner \in Players, pos \in Positions, jump \in Jump : Do(PlaceCmd(owner, pos, jump))

\* main.py:159-161
PlaceBet == \E owner \in Players, camel \in Camel : Do(BetCmd(owner, camel))

\* main.py:170-173
Rank == Do(RankCmd)

Next == RawMove \/ Move \/ Place \/ PlaceBet \/ Rank

Spec == Init /\ [][Next]_vars

----------------------------------------------------------------------------
(* The ledger called directly: apply_action takes whatever it is handed    *)
(* (game.py:146-176), with no parse_action in front. A caller that gets an *)
(* exception keeps the match it had.                                       *)

CoreOpenings == {SubSeq(WalkthroughMatch, 1, n) : n \in 0..Len(WalkthroughMatch)}

InitCore ==
    \E opening \in CoreOpenings :
      \E start \in Replay(init_game, opening) :
        /\ fields = start.board.fields
        /\ index = start.board.index
        /\ players = start.players
        /\ bets = start.bets
        /\ camels_left = start.camels_left
        /\ prev = start
        /\ last = Outcome(NoCmd, "ok", NoOwner, Nothing, <<>>)
        /\ probs = NoTally
        /\ ncmd = 0

Call(c) ==
    /\ ncmd < MaxCommands
    /\ \E r \in {RunCommand(game, c)} : Becomes(r)

CallMove ==
    \E owner \in Players \cup {NoOwner}, camel \in Camel, steps \in Dice :
        Call(MoveCmd(owner, camel, steps))

CallPlace ==
    \E owner \in Players, pos \in Positions, jump \in Jump : Call(PlaceCmd(owner, pos, jump))

CallBet == \E owner \in Players, camel \in Camel : Call(BetCmd(owner, camel))

NextCore == CallMove \/ CallPlace \/ CallBet

SpecCore == InitCore /\ [][NextCore]_vars

----------------------------------------------------------------------------
(* The simulator asked for in the shell (main.py:163-165): `sim` is taken  *)
(* once every camel is placed, prints what simulate_probs returns and      *)
(* leaves the match as it is. An exception of simulate_probs ends the      *)
(* process.                                                                *)

\* camels still to move in a match that is simulated
MaxRemaining == 4

\* how often `sim` is typed
MaxSims == 1

SimCmd == Cmd("sim", NoOwner, "-", 0, 0, 0)

\* board.py:154-171 with the tile one field further: a Backwards tile that
\* sends a group back under the camels it left
ShiftMatch == <<
    MoveCmd(NoOwner, "Y", 1),
    MoveCmd(NoOwner, "W", 1),
    MoveCmd(NoOwner, "B", 2),
    MoveCmd(NoOwner, "O", 3),
    MoveCmd(NoOwner, "G", 3),
    PlaceCmd("bob", 3, Backwards),
    MoveCmd("joe", "O", 1),
    PlaceCmd("joe", 5, Forward),
    MoveCmd("bob", "Y", 2),
    MoveCmd("joe", "W", 3),
    MoveCmd("joe", "G", 2)
>>

\* a Forward tile in front of a stack and a Backwards tile behind the leaders
AheadMatch == <<
    MoveCmd(NoOwner, "Y", 1),
    MoveCmd(NoOwner, "W", 1),
    MoveCmd(NoOwner, "B", 2),
    MoveCmd(NoOwner, "O", 3),
    MoveCmd(NoOwner, "G", 3),
    PlaceCmd("bob", 3, Forward),
    MoveCmd("joe", "G", 1),
    PlaceCmd("joe", 5, Backwards),
    BetCmd("bob", "G"),
    MoveCmd("bob", "O", 3),
    MoveCmd("bob", "Y", 1),
    MoveCmd("joe", "W", 2)
>>

\* a Backwards tile two fields in front of a stack
BehindMatch == <<
    MoveCmd(NoOwner, "Y", 1),
    MoveCmd(NoOwner, "W", 1),
    MoveCmd(NoOwner, "B", 2),
    MoveCmd(NoOwner, "O", 3),
    MoveCmd(NoOwner, "G", 3),
    PlaceCmd("bob", 4, Backwards),
    MoveCmd("joe", "Y", 1),
    PlaceCmd("joe", 7, Forward),
    MoveCmd("joe", "O", 2),
    BetCmd("bob", "G"),
    MoveCmd("bob", "W", 3),
    MoveCmd("bob", "G", 3)
>>

SimMatches == Matches \cup {ShiftMatch, AheadMatch, BehindMatch}

SimOpenings == UNION {{SubSeq(m, 1, n) : n \in 0..Len(m)} : m \in SimMatches}

InitSim ==
    \E opening \in SimOpenings :
      \E start \in Replay(init_game, opening) :
        /\ AllPlaced(start)
        /\ fields = start.board.fields
        /\ index = start.board.index
        /\ players = start.players
        /\ bets = start.bets
        /\ camels_left = start.camels_left
        /\ prev = start
        /\ last = Outcome(NoCmd, "ok", NoOwner, Nothing, <<>>)
        /\ probs = NoTally
        /\ ncmd = 0

\* main.py:163-165 and 111
Sim ==
    /\ last.err = "ok"
    /\ ncmd < MaxSims
    /\ AllPlaced(game)
    /\ Cardinality(camels_left) <= MaxRemaining
    /\ \E first \in FirstRaises(game) :
         \E r \in {simulate_probs(game, first)} :
           /\ probs' = r
           /\ last' = Outcome(SimCmd, r.err, NoOwner, Nothing, <<>>)
    /\ prev' = game
    /\ ncmd' = ncmd + 1
    /\ UNCHANGED <<fields, index, players, bets, camels_left>>

NextSim == Sim

SpecSim == InitSim /\ [][NextSim]_vars

----------------------------------------------------------------------------
(* Properties. They are stated on the match before the last command        *)
(* (prev), the command and what it reported (last), and the match after it *)
(* (fields, index, players, bets, camels_left).                            *)

\* where camel c stands on a track: the pairs <<field, height>> holding it
Places(fs, c) ==
    {fh \in Positions \X (0..(Cardinality(Camel) - 1)) :
        /\ fs[fh[1]].kind = "list"
        /\ fh[2] < Len(fs[fh[1]].camels)
        /\ fs[fh[1]].camels[fh[2] + 1] = c}

Tiles(fs) == {i \in Positions : fs[i].kind = "JumpField"}

LastMove == last.cmd.cmd = "move"
LastMoveOk == LastMove /\ last.err = "ok"
Mover == last.cmd.camel
Steps == last.cmd.steps

\* the last command moved a camel that was already on the board
Subsequent == LastMoveOk /\ Mover \in DOMAIN prev.board.index

\* for a subsequent move: where it started and what it carried
Origin == prev.board.index[Mover]
OriginStack == prev.board.fields[Origin].camels
Height == CHOOSE h \in 0..(Len(OriginStack) - 1) : OriginStack[h + 1] = Mover
Carried == [i \in 1..(Len(OriginStack) - Height) |-> OriginStack[Height + i]]
Below == [i \in 1..Height |-> OriginStack[i]]
FirstLanding == Origin + Steps
OnTile == FirstLanding < BOARD_SIZE /\ prev.board.fields[FirstLanding].kind = "JumpField"
Shift == IF OnTile THEN prev.board.fields[FirstLanding].jtype ELSE 0
FinalLanding == FirstLanding + Shift
Finishes == FirstLanding >= BOARD_SIZE \/ FinalLanding >= BOARD_SIZE

\* the camels the final landing field held before the move, the carried ones aside
Occupants ==
    LET NotCarried(c) == c \notin Range(Carried)
    IN  SelectSeq(prev.board.fields[FinalLanding].camels, NotCarried)

\* s occurs in t as one block
Block(s, t) == \E k \in 0..(Len(t) - Len(s)) : SubSeq(t, k + 1, k + Len(s)) = s

\* C1: every camel whose recorded position is below 16 stands exactly once on
\* the whole track, in the stack on the field of its recorded position.
C1_EachCamelOnceAtItsPosition ==
    \A c \in DOMAIN index :
        index[c] < BOARD_SIZE =>
            /\ index[c] >= 0
            /\ Cardinality(Places(fields, c)) = 1
            /\ \A fh \in Places(fields, c) : fh[1] = index[c]

\* a carried group of two or more has just landed on an occupied field
C1_Witness ==
    /\ Subsequent /\ ~Finishes
    /\ Len(Carried) >= 2
    /\ Occupants # <<>>

\* C2: after a Backwards tile the carried group lies beneath the camels the
\* landing field held (or alone on it); after every other landing it lies on top
\* of them; the order inside both groups is kept.
C2_MergeOrder ==
    (Subsequent /\ ~Finishes) =>
        /\ fields[FinalLanding].kind = "list"
        /\ fields[FinalLanding].camels =
              IF Shift = Backwards THEN Carried \o Occupants ELSE Occupants \o Carried

\* a carried group of two or more has been sent back by a Backwards tile onto an
\* occupied field
C2_Witness ==
    /\ Subsequent /\ ~Finishes
    /\ Shift = Backwards
    /\ Occupants # <<>>
    /\ Len(Carried) >= 2

\* what C3 says of the carried group and of the camels that stay
CarriedTogether ==
    /\ \A c \in Range(Carried) : index[c] = FinalLanding
    /\ \A c \in DOMAIN prev.board.index \ Range(Carried) : index[c] = prev.board.index[c]
    /\ ~Finishes => Block(Carried, fields[FinalLanding].camels)
    /\ Finishes => last.winner = Some(Carried)
BelowStays ==
    /\ \A i \in Positions : fields[i].kind = "list" => fields[i].camels # <<>>
    /\ Height > 0 => Block(Below, fields[Origin].camels)
    /\ \A c \in Range(Below) : Places(fields, c) = Places(prev.board.fields, c) \/ FinalLanding = Origin

\* C3 as claimed: a move of the bottom camel of a stack leaves its origin Empty.
C3_OriginEmptiedWhenBottomMoves ==
    Subsequent => /\ CarriedTogether
                  /\ BelowStays
                  /\ Height = 0 => fields[Origin] = EmptyField

\* C3, amended: the carried group is the camel and all above it, in order, and
\* ends on one position; the camels below stay at the origin in order; the
\* origin is left as the camels below, Empty when there are none, unless a
\* Backwards tile on the next field sends the group back to its origin, which
\* then holds the carried group beneath the camels that stayed.
C3_CarriedGroupAndOrigin ==
    Subsequent => /\ CarriedTogether
                  /\ BelowStays
                  /\ FinalLanding # Origin => fields[Origin] = StackOrNone(Below)
                  /\ FinalLanding = Origin => fields[Origin] = CamelStack(Carried \o Below)

\* the bottom camel of a stack of three or more moved, carrying the others, and
\* left its origin Empty
C3_Witness ==
    /\ Subsequent
    /\ Height = 0 /\ Len(Carried) >= 3
    /\ FinalLanding # Origin
    /\ fields[Origin] = EmptyField

\* C4: a landing of 16 or more, before or after the tile shift, hands back the
\* whole carried group bottom-to-top, each camel once; a camel whose position is
\* 16 or more stands in no stack, and no finish group names a camel that had
\* finished before.
C4_FinishGroupReportedOnce ==
    /\ (Subsequent /\ Finishes) =>
          /\ last.winner = Some(Carried)
          /\ \A c \in Range(Carried) :
                /\ index[c] >= BOARD_SIZE
                /\ Cardinality({i \in 1..Len(last.winner.list) : last.winner.list[i] = c}) = 1
    /\ \A c \in DOMAIN index :
          index[c] >= BOARD_SIZE => \A i \in Positions : c \notin Range(fields[i].camels)
    /\ last.winner.some =>
          /\ Subsequent /\ Finishes
          /\ \A c \in Range(last.winner.list) : prev.board.index[c] < BOARD_SIZE

\* two or more camels have just crossed the line together
C4_Witness ==
    /\ Subsequent /\ Finishes
    /\ Len(Carried) >= 2
    /\ last.winner.some

\* the last command moved the last camel of the leg
LastOfLeg == LastMove /\ prev.camels_left \ {Mover} = {}

OwnedBets(ps) == [name \in Players |-> ps[name].owned_bets]

\* C5 as claimed: the move of the last camel of a leg, and no other command,
\* settles the round: the match it returns has no tile, full pools, no owned
\* bets and all camels to move.
C5_LegEndSettles ==
    /\ LastOfLeg =>
          /\ last.err = "ok"
          /\ Tiles(fields) = {}
          /\ bets = [c \in Camel |-> BetSizes]
          /\ \A name \in Players : players[name].owned_bets = {}
          /\ camels_left = Camel
    /\ (LastMoveOk /\ ~LastOfLeg) =>
          /\ camels_left = prev.camels_left \ {Mover}
          /\ camels_left # Camel
          /\ Tiles(fields) = Tiles(prev.board.fields)
          /\ bets = prev.bets
          /\ OwnedBets(players) = OwnedBets(prev.players)

\* camel a is ahead of camel b on the board
Ahead(a, b) ==
    \/ index[a] > index[b]
    \/ /\ index[a] = index[b]
       /\ \E x \in Places(fields, a), y \in Places(fields, b) : x[2] > y[2]

IsFirst(c) == \A d \in DOMAIN index \ {c} : Ahead(c, d)
IsSecond(c) == \E f \in DOMAIN index : IsFirst(f) /\ c # f /\ \A d \in DOMAIN index \ {c, f} : Ahead(c, d)

\* what the owned bets are worth: the denomination on the first camel, 1 on the
\* second, -1 on any other
Worth(owned) ==
    LET OnFirst(size) == IF \E b \in owned : b.size = size /\ IsFirst(b.camel) THEN size ELSE 0
    IN  OnFirst(2) + OnFirst(3) + OnFirst(5)
        + Cardinality({b \in owned : IsSecond(b.camel)})
        - Cardinality({b \in owned : ~IsFirst(b.camel) /\ ~IsSecond(b.camel)})

\* the balance of a player when the settlement starts: stipend and tile reward paid
BalanceBeforeSettlement(name) ==
    prev.players[name].balance
    + (IF last.cmd.owner = name THEN 1 ELSE 0)
    + (IF last.shifter = name THEN 1 ELSE 0)

Settled == LastOfLeg /\ last.err = "ok"

\* C6: a settlement leaves each player max(0, b + worth of the owned bets), and
\* no balance is ever negative.
C6_SettlementArithmetic ==
    /\ \A name \in Players : players[name].balance \in Nat
    /\ Settled =>
          \A name \in Players :
              players[name].balance =
                  Max(0, BalanceBeforeSettlement(name) + Worth(prev.players[name].owned_bets))

\* a settlement in which a player's bets cost more than the player had
C6_Witness ==
    /\ Settled
    /\ \E name \in Players :
          BalanceBeforeSettlement(name) + Worth(prev.players[name].owned_bets) < 0

\* the rank of a camel among those on its position: its height in its stack,
\* or its place in the finish order given
Tiebreak(winners, c) ==
    IF index[c] < BOARD_SIZE
    THEN (CHOOSE fh \in Places(fields, c) : TRUE)[2]
    ELSE (CHOOSE i \in 1..Len(winners.list) : winners.list[i] = c) - 1

BestFirst(ranking, winners) ==
    /\ Len(ranking) = Cardinality(DOMAIN index)
    /\ Range(ranking) = DOMAIN index
    /\ \A i, j \in 1..Len(ranking) :
          i < j => \/ index[ranking[i]] > index[ranking[j]]
                   \/ /\ index[ranking[i]] = index[ranking[j]]
                      /\ Tiebreak(winners, ranking[i]) > Tiebreak(winners, ranking[j])

\* C7: get_rankings lists the camels by descending position and, on one
\* position, by descending height in the stack or place in the finish order
\* given; so a finished camel comes before every camel on the track.
C7_RankingBestFirst ==
    /\ \A winners \in {Nothing, last.winner} :
          LET r == get_rankings(Board(fields, index), winners)
          IN  r.err = "ok" => BestFirst(r.ranking, winners)
    /\ (last.cmd.cmd = "rank" /\ last.err = "ok") => BestFirst(last.ranking, Nothing)

\* a ranking with two camels that finished together and camels on the track
C7_Witness ==
    /\ last.err = "ok" /\ last.winner.some /\ Len(last.winner.list) >= 2
    /\ get_rankings(Board(fields, index), last.winner).err = "ok"
    /\ \E c \in DOMAIN index : index[c] < BOARD_SIZE

\* C8 as claimed: the ranking of the current board, asked for with no finish
\* order, succeeds in every match state and lists every placed camel once.
C8_CurrentRankingSucceeds ==
    last.cmd.cmd = "rank" =>
        /\ last.err = "ok"
        /\ Len(last.ranking) = Cardinality(DOMAIN index)
        /\ Range(last.ranking) = DOMAIN index

\* C9 as claimed: on a valid board apply_move fails only for a first move whose
\* target field holds a tile.
C9_MoveFailsOnlyOntoTile ==
    (LastMove /\ validate_board(prev.board)
        /\ apply_move(prev.board, Mover, Steps).err # "ok") =>
        /\ Mover \notin DOMAIN prev.board.index
        /\ prev.board.fields[Steps - 1].kind = "JumpField"

\* C10 as claimed, of the ledger called by any caller: a tile is accepted only on
\* an Empty field other than field 0 with no tile beside it; so no two tiles are
\* adjacent, field 0 holds no tile and a placement takes no camel off the track.
C10_PlacementValidated ==
    /\ (last.cmd.cmd = "place" /\ last.err = "ok") =>
          /\ last.cmd.position # 0
          /\ prev.board.fields[last.cmd.position] = EmptyField
          /\ \A i \in Tiles(prev.board.fields) :
                i - last.cmd.position \notin {-1, 1}
          /\ \A c \in Camel : Places(prev.board.fields, c) \subseteq Places(fields, c)
    /\ \A i, j \in Tiles(fields) : i - j # 1
    /\ 0 \notin Tiles(fields)

\* the match the last command was run on, as it reads after the call:
\* main.py:225 keeps that object on top of history_stack
Kept ==
    IF last.cmd.cmd \in {"move", "place", "bet"} THEN GameSeen(prev, last.cmd) ELSE prev

Highest(pool) == CHOOSE x \in Range(pool) : \A y \in Range(pool) : y <= x

\* C12: a claim takes the highest denomination left in the camel's pool and
\* gives (denomination, camel) to the claiming player, so that the claims on
\* one camel yield 5, then 3, then 2; a claim on an empty pool raises and
\* changes nothing.
C12_ClaimTakesHighest ==
    /\ \A c \in Camel : bets[c] \in {<<2, 3, 5>>, <<2, 3>>, <<2>>, <<>>}
    /\ last.cmd.cmd = "bet" =>
          LET camel == last.cmd.camel
              owner == last.cmd.owner
              pool == prev.bets[camel]
          IN  IF pool = <<>>
              THEN last.err # "ok" /\ game = prev
              ELSE /\ last.err = "ok"
                   /\ Len(bets[camel]) = Len(pool) - 1
                   /\ Range(bets[camel]) = Range(pool) \ {Highest(pool)}
                   /\ players[owner].owned_bets =
                         prev.players[owner].owned_bets \cup {Bet(Highest(pool), camel)}
                   /\ Bet(Highest(pool), camel) \notin prev.players[owner].owned_bets
                   /\ Highest(pool) = (<<2, 3, 5>>)[Len(pool)]
                   /\ players[owner].balance = prev.players[owner].balance
                   /\ \A name \in Players \ {owner} : players[name] = prev.players[name]
                   /\ \A c \in Camel \ {camel} : bets[c] = prev.bets[c]
                   /\ fields = prev.board.fields /\ index = prev.board.index
                   /\ camels_left = prev.camels_left

\* a claim on a camel whose three wagers had all been claimed
C12_Witness ==
    /\ last.cmd.cmd = "bet"
    /\ prev.bets[last.cmd.camel] = <<>>
    /\ last.err = "IndexError"

----------------------------------------------------------------------------
(* The simulator *)

LastSim == last.cmd = SimCmd

\* combinations enumerated by the last simulate_probs (main.py:86-88)
Combinations == TotalPaths(Cardinality(camels_left))

\* the sum of an accumulator over its keys
RECURSIVE SumOf(_, _)
SumOf(f, keys) ==
    IF keys = {} THEN 0
    ELSE LET k == CHOOSE x \in keys : TRUE IN f[k] + SumOf(f, keys \ {k})

\* C13: in every match with all camels placed, whatever the camels still to
\* move, simulate_probs returns first-place values that sum to 1 over the
\* camels and second-place values that sum to 1 (in counts: each sum is the
\* number of combinations).
C13_FirstSecondSumToOne ==
    LastSim =>
        /\ probs.err = "ok"
        /\ SumOf(probs.fst_p, Camel) = Combinations
        /\ SumOf(probs.snd_p, Camel) = Combinations

\* what holds of C13: a simulation that returns has both sums right
C13_SumsWhenReturned ==
    LastSim /\ probs.err = "ok" =>
        /\ SumOf(probs.fst_p, Camel) = Combinations
        /\ SumOf(probs.snd_p, Camel) = Combinations

\* a simulation raises only in a match where a camel has finished
C13_RaisesOnlyAfterFinish ==
    LastSim /\ probs.err # "ok" => \E c \in Camel : index[c] >= BOARD_SIZE

\* C14: every value simulate_probs returns lies in [0,1]: for every camel
\* its first-place, second-place, race-win and race-lose value, for every
\* tile owner the tile-shift value (in counts: no accumulator holds more
\* than the number of combinations).
C14_AllValuesAreProbabilities ==
    LastSim /\ probs.err = "ok" =>
        /\ \A c \in Camel :
             /\ probs.fst_p[c] \in 0..Combinations
             /\ probs.snd_p[c] \in 0..Combinations
             /\ probs.winners[c] \in 0..Combinations
             /\ probs.losers[c] \in 0..Combinations
        /\ \A name \in Players : probs.shifts[name] \in 0..Combinations

\* what holds of C14: the four values of a camel lie in [0,1]; the value of
\* a tile owner is an expected number of rewards, at most one per move replayed
C14_CamelValuesAreProbabilities ==
    LastSim /\ probs.err = "ok" =>
        /\ \A c \in Camel :
             /\ probs.fst_p[c] \in 0..Combinations
             /\ probs.snd_p[c] \in 0..Combinations
             /\ probs.winners[c] \in 0..Combinations
             /\ probs.losers[c] \in 0..Combinations
        /\ SumOf(probs.shifts, Players) \in 0..(Cardinality(camels_left) * Combinations)

\* every camel is on the board: none has finished
NoneFinished == \A c \in Camel : index[c] < BOARD_SIZE

\* the combinations, out of those that move the camels of rest from board in
\* any order by any steps, in which a camel reaches the finish; the moves that
\* would follow the first finish are not looked at
RECURSIVE Finishing(_, _)
Finishing(board, rest) ==
    LET After(camel, steps) ==
            Only({IF m.winner.some THEN TotalPaths(Cardinality(rest) - 1)
                  ELSE Only({Finishing(b, left) : b \in {m.board}, left \in {rest \ {camel}}})
                  : m \in {apply_move(board, camel, steps)}})
    IN  SumOf([next \in rest \X Dice |-> After(next[1], next[2])], rest \X Dice)

\* C17: simulate_probs applies no move of a combination after the first one
\* that returns a finish group, and a combination adds its weight to race-win
\* (the camel ranked first) and to race-lose (the camel ranked last) exactly
\* when its replay returned a finish group: the race-win values and the
\* race-lose values each sum to the share of combinations in which a camel
\* finishes.
C17_WinLoseWhenFinished ==
    LastSim /\ NoneFinished =>
        /\ probs.err = "ok"
        /\ SumOf(probs.winners, Camel) = Finishing(prev.board, camels_left)
        /\ SumOf(probs.losers, Camel) = Finishing(prev.board, camels_left)
        /\ \A c \in Camel : probs.winners[c] <= probs.fst_p[c]
        /\ \A c \in Camel :
             probs.winners[c] + probs.losers[c] <= Finishing(prev.board, camels_left)

C17_Witness ==
    /\ LastSim /\ NoneFinished /\ probs.err = "ok"
    /\ SumOf(probs.winners, Camel) \in 1..(Combinations - 1)
    /\ Cardinality(camels_left) > 1

----------------------------------------------------------------------------
(* Conservation of the camels *)

\* the code keeps no finish order: a camel has finished when its recorded
\* position is 16 or more
HasFinished(c) == c \in DOMAIN index /\ index[c] >= BOARD_SIZE

\* how often camel c is found across the stacks and the finished camels
Times(c) == Cardinality(Places(fields, c)) + (IF HasFinished(c) THEN 1 ELSE 0)

\* the camels standing on the track, whatever they are
OnTrack == SumOf([i \in Positions |-> Len(fields[i].camels)], Positions)

\* C15 as claimed: in every state each of the five camels is found exactly once
\* across the stacks and the finish order.
C15_AllCamelsOnce == \A c \in Camel : Times(c) = 1

\* C15: each camel that has been placed is found exactly once across the
\* stacks and the finished camels, a camel not yet placed is found nowhere,
\* and nothing else stands on the track; once all five are placed they are
\* the full set.
C15_PlacedCamelsOnce ==
    /\ \A c \in Camel : Times(c) = IF c \in DOMAIN index THEN 1 ELSE 0
    /\ OnTrack = Cardinality({c \in DOMAIN index : ~HasFinished(c)})
    /\ AllPlaced(game) => \A c \in Camel : Times(c) = 1

\* a camel has just finished, or a camel has just been placed while another
\* is still to be placed
C15_Witness ==
    /\ LastMoveOk
    /\ \/ \E c \in Camel : HasFinished(c) /\ c \in Range(last.winner.list)
       \/ Cardinality(DOMAIN index) \in 2..4

----------------------------------------------------------------------------
(* Tile reward and stipend *)

\* the owner of the tile on the field origin + steps of the last move
TileOwner == prev.board.fields[FirstLanding].owner

\* game.py:157, what the last move pays for the tile it used
TileReward(name) == IF Subsequent /\ OnTile /\ TileOwner = name THEN 1 ELSE 0

\* game.py:153, what the last move pays the player who made it
Stipend(name) == IF LastMoveOk /\ last.cmd.owner = name THEN 1 ELSE 0

\* C16: a move whose landing field origin + steps holds a tile reports the
\* owner of that tile and, through apply_action, pays that owner exactly 1,
\* also when the shifted landing is past the finish; a move onto any other
\* field, and every first move, reports no owner and pays no tile reward. One
\* tile at most is applied: the carried camels end on the field next to the
\* tile, which is no tile.
C16_TileRewardOnce ==
    LastMoveOk =>
        /\ last.shifter = IF Subsequent /\ OnTile THEN TileOwner ELSE NoOwner
        /\ Subsequent /\ OnTile =>
              /\ TileOwner \in Players
              /\ FinalLanding \in {FirstLanding - 1, FirstLanding + 1}
              /\ \A c \in Range(Carried) : index[c] = FinalLanding
              /\ FinalLanding < BOARD_SIZE =>
                    /\ prev.board.fields[FinalLanding].kind # "JumpField"
                    /\ Block(Carried, fields[FinalLanding].camels)
        /\ \A name \in Players :
              players[name].balance =
                  IF LastOfLeg
                  THEN Max(0, prev.players[name].balance + Stipend(name) + TileReward(name)
                              + Worth(prev.players[name].owned_bets))
                  ELSE prev.players[name].balance + Stipend(name) + TileReward(name)

\* a group has gone past the finish through a Forward tile on the last field
C16_Witness ==
    /\ Subsequent /\ OnTile /\ Finishes
    /\ players[TileOwner].balance > prev.players[TileOwner].balance

----------------------------------------------------------------------------
(* What a move leaves alone *)

\* the board apply_move returns for the last move (the settlement that may
\* follow in apply_action takes the tiles off: game.py:132-134)
Moved == apply_move(prev.board, Mover, Steps)

WasPlaced == Mover \in DOMAIN prev.board.index

\* the camels the last move carried, and the fields it may write
Group == IF WasPlaced THEN Range(Carried) ELSE {Mover}
Touched == IF WasPlaced THEN {Origin, FinalLanding} ELSE {Steps - 1}

\* the camels of a field that the last move did not carry, bottom to top
Staying(field) ==
    LET NotCarried(c) == c \notin Group IN SelectSeq(field.camels, NotCarried)

\* C18: an apply_move that returns changes at most the origin field and the
\* final landing field: every tile stays where it is with its direction and
\* owner, every other field is as before, and every camel outside the carried
\* group keeps its recorded position and its order among the camels of its
\* stack that were not carried.
C18_MoveTouchesTwoFields ==
    LastMove /\ Moved.err = "ok" =>
        /\ \A i \in Positions \ Touched : Moved.board.fields[i] = prev.board.fields[i]
        /\ \A i \in Tiles(prev.board.fields) : Moved.board.fields[i] = prev.board.fields[i]
        /\ Tiles(Moved.board.fields) = Tiles(prev.board.fields)
        /\ \A c \in DOMAIN prev.board.index \ Group :
              Moved.board.index[c] = prev.board.index[c]
        /\ \A i \in Positions : Staying(Moved.board.fields[i]) = Staying(prev.board.fields[i])

\* a group taken from the middle of a stack has landed on other camels, with
\* a tile on the track
C18_Witness ==
    /\ Subsequent /\ ~Finishes /\ Moved.err = "ok"
    /\ Height > 0
    /\ Len(Occupants) >= 2
    /\ FinalLanding # Origin
    /\ Tiles(prev.board.fields) # {}
    /\ Moved.board.fields[Origin] # prev.board.fields[Origin]
    /\ Moved.board.fields[FinalLanding] # prev.board.fields[FinalLanding]

----------------------------------------------------------------------------
(* The bet tokens *)

\* the denominations of the bets on camel that player name owns
OwnedSizes(name, camel) == {b.size : b \in {x \in players[name].owned_bets : x.camel = camel}}

\* C19: for every camel, the denominations left in its pool and the
\* denominations of the bets on it that the players own are disjoint and are
\* together 2, 3 and 5; no token is in the pool twice or owned by two players.
C19_TokensConserved ==
    \A camel \in Camel :
        /\ Len(bets[camel]) = Cardinality(Range(bets[camel]))
        /\ \A name \in Players : Range(bets[camel]) \cap OwnedSizes(name, camel) = {}
        /\ \A name \in Players : \A other \in Players \ {name} :
              OwnedSizes(name, camel) \cap OwnedSizes(other, camel) = {}
        /\ Range(bets[camel]) \cup UNION {OwnedSizes(name, camel) : name \in Players}
              = {2, 3, 5}
        /\ \A name \in Players : \A b \in players[name].owned_bets : b.camel \in Camel

\* a bet has just been taken on a camel on which both players now own a
\* bet and whose pool still holds a token
C19_Witness ==
    /\ last.cmd.cmd = "bet" /\ last.err = "ok"
    /\ bets[last.cmd.camel] # <<>>
    /\ \A name \in Players : OwnedSizes(name, last.cmd.camel) # {}

\* a settlement has just put the owned tokens back into the pools
C19_TokensBack ==
    /\ Settled
    /\ \E name \in Players : prev.players[name].owned_bets # {}
    /\ \A camel \in Camel : bets[camel] = BetSizes

\* the balance of player name after the stipend and the tile reward of the
\* last move, the reward going to the owner the move reported
AfterStipendAndReward(name) ==
    prev.players[name].balance
    + (IF last.cmd.owner = name THEN 1 ELSE 0)
    + (IF last.shifter = name THEN ShifterReward ELSE 0)

\* C20: a move made by a player pays that player exactly 1 before the tile
\* reward and the settlement are applied; a move with no owner of a camel
\* still to move pays no stipend; a placement and a bet change no balance.
C20_StipendOnOwnedMoves ==
    /\ last.cmd.cmd \in {"place", "bet"} =>
          \A name \in Players : players[name].balance = prev.players[name].balance
    /\ LastMoveOk =>
          /\ last.cmd.owner = NoOwner => Mover \in prev.camels_left
          /\ \A name \in Players :
                players[name].balance =
                    IF ~LastOfLeg THEN AfterStipendAndReward(name)
                    ELSE Max(0, AfterStipendAndReward(name) + Worth(prev.players[name].owned_bets))

\* the player who makes the last move of a leg has bets that cost more than
\* the balance held before the move: the stipend is paid before the floor
C20_Witness ==
    /\ Settled
    /\ last.cmd.owner \in Players
    /\ prev.players[last.cmd.owner].balance + Worth(prev.players[last.cmd.owner].owned_bets) < 0
    /\ players[last.cmd.owner].balance = 0

----------------------------------------------------------------------------
(* Tiles under the shell's validation *)

\* the fields holding a tile of the player name
TilesOf(name) == {i \in Tiles(fields) : fields[i].owner = name}

\* some placement of name would pass parse_place (main.py:152)
CouldPlace(name) == \E pos \in Positions, jump \in Jump : parse_place(game, pos, jump)

\* parse_action refuses every placement typed by name (main.py:150-158)
PlacementRefused(name) ==
    \A pos \in Positions, jump \in Jump : ~parse_action(game, PlaceCmd(name, pos, jump))

\* C21: in the shell every player owns at most one tile of the track; while a
\* player owns a tile every placement they type is refused, and the settlement
\* of a leg leaves no tile; a tile exists only when all five camels are in the
\* index, so a first move never targets a tile field and never fails.
C21_OneTilePerPlayer ==
    /\ \A name \in Players : Cardinality(TilesOf(name)) <= 1
    /\ \A i \in Tiles(fields) : fields[i].owner \in Players
    /\ \A name \in Players : TilesOf(name) # {} => PlacementRefused(name)
    /\ Settled => Tiles(fields) = {}
    /\ Tiles(fields) # {} => AllPlaced(game)
    /\ Tiles(prev.board.fields) # {} => AllPlaced(prev)
    /\ (LastMove /\ ~WasPlaced) =>
          /\ prev.board.fields[Steps - 1].kind # "JumpField"
          /\ last.err = "ok"

\* a placement was just accepted, both players own a tile, and a further
\* placement would pass every test of parse_place: it is refused for the owner
C21_Witness ==
    /\ last.cmd.cmd = "place" /\ last.err = "ok"
    /\ \A name \in Players : Cardinality(TilesOf(name)) = 1 /\ CouldPlace(name)

\* a leg was settled while tiles lay on the track
C21_TilesCleared == Settled /\ Tiles(prev.board.fields) # {}

\* a player who owned a tile in an earlier leg has just placed another
C21_PlacesAgain ==
    /\ last.cmd.cmd = "place" /\ last.err = "ok"
    /\ ncmd = 2 /\ Tiles(prev.board.fields) = {}
    /\ \E name \in Players : prev.players[name].balance > StartBalance

\* a first move was just made
C21_FirstMove == LastMoveOk /\ ~WasPlaced

====
